---- MODULE Spec2Model ----
(***************************************************************************)
(* Risk-evaluation engine of the fraud detection service (src/main.py):    *)
(* the blacklist and transaction collections, the four signal evaluators,  *)
(* detect_fraud, the /check_fraud handler and the startup initialisation.  *)
(*                                                                         *)
(* Modelling conventions                                                   *)
(*  - A MongoDB collection is a sequence of documents in insertion order;  *)
(*    a document is a record (a function from field names to values).      *)
(*  - An optional value (None or a value) is a sequence of length 0 or 1.  *)
(*  - A timestamp string is the sequence of its fixed-width digit groups   *)
(*    <<YYYY, MM, DD, HH, MM, SS>>; the empty string is <<>>.  MongoDB     *)
(*    orders the stored strings bytewise, which on fixed-width digit       *)
(*    groups is the lexicographic order of these sequences.                *)
(*  - Amounts are positive integers; the z-score is kept as the exact      *)
(*    fraction of its square, so "z > 2" is "num > 4 * den".               *)
(*  - datetime.now() is the logical clock `now`, which every handler       *)
(*    advances by one.                                                     *)
(*  - Each handler invocation draws an environment record `env`: which     *)
(*    external calls fail, and which of the equally recent documents the   *)
(*    store returns for a sorted query.                                    *)
(***************************************************************************)
EXTENDS Integers, Sequences, FiniteSets, TLC

VARIABLES
    blacklist_collection,      \* db.blacklist
    transactions_collection,   \* db.transactions
    now,                       \* datetime.now(), a logical clock
    call,                      \* the last handler invocation: input, locals, response
    inflight                   \* per server process: the check_fraud request it is serving

vars == <<blacklist_collection, transactions_collection, now, call, inflight>>

(***************************************************************************)
(* Bounds of the exploration.                                              *)
(***************************************************************************)
MaxOps == 3         \* startups and requests per behaviour
MaxWindowOps == 6   \* requests per behaviour where the history outgrows the window
MaxProcesses == 2   \* server processes sharing the database

(***************************************************************************)
(* Program constants.                                                      *)
(***************************************************************************)
BLACKLISTED_IPS ==
    <<"192.168.1.100", "10.0.0.50", "172.16.0.25", "203.0.113.45", "198.51.100.78">>

BLACKLISTED_ACCOUNTS ==
    <<"ACC123456789", "ACC987654321", "ACC555666777", "ACC111222333">>

IP_WEIGHT == 30
ACCOUNT_WEIGHT == 40
ODD_HOUR_WEIGHT == 15
AMOUNT_WEIGHT == 20
DRIFT_WEIGHT == 25
FRAUD_THRESHOLD == 30
WINDOW_LIMIT == 5
MIN_WINDOW == 2
Z_THRESHOLD == 2
DRIFT_KM == 500
ODD_HOUR_LAST == 4

REASON_IP == "Blacklisted IP address"
REASON_ACCOUNT == "Blacklisted recipient account"
REASON_ODD_HOUR == "Transaction at odd hours (12 AM - 4 AM)"
REASON_AMOUNT == "Abnormal transaction amount (z-score: {z_score:.2f})"
REASON_DRIFT == "Geographic drift detected (>500km from last location)"
REASON_FEEDBACK == "Fraudulent transaction detected"

(***************************************************************************)
(* Generic helpers.                                                        *)
(***************************************************************************)
Range(s) == {s[i] : i \in 1..Len(s)}

RECURSIVE SumOver(_, _)
\* Sum of f[i] for i in the finite set S.
SumOver(f, S) ==
    IF S = {} THEN 0
    ELSE LET i == CHOOSE j \in S : TRUE IN f[i] + SumOver(f, S \ {i})

Abs(x) == IF x < 0 THEN -x ELSE x

\* Number of positions of sequence s holding x.
Count(s, x) == Cardinality({i \in 1..Len(s) : s[i] = x})

(***************************************************************************)
(* External calls of one invocation that the environment may fail.         *)
(***************************************************************************)
Faults ==
    {"blacklist_find_ip", "blacklist_find_account", "transactions_find",
     "transactions_find_one", "geocode_current", "geocode_last",
     "insert_one", "update_one"}

(***************************************************************************)
(* Timestamps: strptime(timestamp_str, "%Y-%m-%d %H:%M:%S") and the        *)
(* store's string order.                                                   *)
(***************************************************************************)
IsLeap(y) == (y % 4 = 0 /\ y % 100 # 0) \/ y % 400 = 0

DaysInMonth(y, m) ==
    IF m = 2 THEN (IF IsLeap(y) THEN 29 ELSE 28)
    ELSE IF m \in {4, 6, 9, 11} THEN 30 ELSE 31

\* strptime succeeds: six groups, each in the range the format accepts.
strptime_ok(ts) ==
    /\ Len(ts) = 6
    /\ ts[1] \in 1..9999
    /\ ts[2] \in 1..12
    /\ ts[3] \in 1..DaysInMonth(ts[1], ts[2])
    /\ ts[4] \in 0..23
    /\ ts[5] \in 0..59
    /\ ts[6] \in 0..61

\* dt.hour of a parsed timestamp.
hour_of(ts) == ts[4]

RECURSIVE StrLess(_, _)
\* a < b in the order the store sorts timestamp strings by.
StrLess(a, b) ==
    IF b = <<>> THEN FALSE
    ELSE IF a = <<>> THEN TRUE
    ELSE IF Head(a) # Head(b) THEN Head(a) < Head(b)
    ELSE StrLess(Tail(a), Tail(b))

(***************************************************************************)
(* The store: find_one, update_one(upsert=True) on db.blacklist, and the   *)
(* sorted queries on db.transactions.  Each single store call is atomic.   *)
(***************************************************************************)
\* Positions of the blacklist documents matching {"type": t, "value": v}.
Matching(coll, t, v) ==
    {i \in 1..Len(coll) : coll[i].type = t /\ coll[i].value = v}

FirstOf(S) == CHOOSE i \in S : \A j \in S : i <= j

\* blacklist_collection.find_one({"type": t, "value": v}): None or a document.
find_one(coll, t, v) ==
    IF Matching(coll, t, v) = {} THEN <<>>
    ELSE <<coll[FirstOf(Matching(coll, t, v))]>>

\* {"$set": fields} applied to a document: named fields overwritten, others kept.
ApplySet(doc, fields) ==
    [f \in (DOMAIN doc) \cup (DOMAIN fields) |->
        IF f \in DOMAIN fields THEN fields[f] ELSE doc[f]]

\* Mutant: an insert in place of the upsert.
update_one_as_insert(coll, t, v, fields) ==
    Append(coll, ApplySet([type |-> t, value |-> v], fields))

\* update_one({"type": t, "value": v}, {"$set": fields}, upsert=True).
update_one(coll, t, v, fields) ==
    IF Matching(coll, t, v) = {}
    THEN Append(coll, ApplySet([type |-> t, value |-> v], fields))
    ELSE [coll EXCEPT ![FirstOf(Matching(coll, t, v))] = ApplySet(@, fields)]

\* Positions of the stored transactions matching {"card_type": card_type}.
SameCard(coll, card_type) ==
    {i \in 1..Len(coll) : coll[i].card_type = card_type}

Smaller(a, b) == IF a < b THEN a ELSE b

\* find({"card_type": c}).sort("timestamp", -1).limit(limit): the possible
\* results, as sets of positions.  Documents with equal timestamps come in
\* an order the store does not fix, so every choice among them is possible.
find_sorted_limit(coll, card_type, limit) ==
    {W \in SUBSET SameCard(coll, card_type) :
        /\ Cardinality(W) = Smaller(limit, Cardinality(SameCard(coll, card_type)))
        /\ \A i \in W : \A j \in SameCard(coll, card_type) \ W :
               ~StrLess(coll[i].timestamp, coll[j].timestamp)}

\* find_one({"card_type": c}, sort=[("timestamp", -1)]): the possible results,
\* None or the position of a newest document.
find_one_sorted(coll, card_type) ==
    IF SameCard(coll, card_type) = {} THEN {<<>>}
    ELSE {<<i>> : i \in {k \in SameCard(coll, card_type) :
                    \A j \in SameCard(coll, card_type) :
                        ~StrLess(coll[k].timestamp, coll[j].timestamp)}}

\* What the environment decides during one invocation: the calls that fail
\* (any of `faulty`) and the results of the sorted queries.
Envs(coll, card_type, faulty) ==
    [faults : SUBSET faulty,
     recent : find_sorted_limit(coll, card_type, WINDOW_LIMIT),
     last   : find_one_sorted(coll, card_type)]

(***************************************************************************)
(* The geocoder (Nominatim) and geodesic distance.  Places lie on one      *)
(* line; a coordinate is the kilometres along it.                          *)
(***************************************************************************)
Places == {"Chennai", "Tirupati", "Mumbai", "Atlantis"}

\* geolocator.geocode(location): location_data or None (unknown place).
geocode(location) ==
    CASE location = "Chennai"  -> <<0>>
      [] location = "Tirupati" -> <<500>>
      [] location = "Mumbai"   -> <<501>>
      [] OTHER                 -> <<>>

\* geodesic(coords1, coords2).kilometers
geodesic_km(coords1, coords2) == Abs(coords1 - coords2)

get_coordinates(location, fails) ==
    IF fails THEN <<>> ELSE geocode(location)

\* calculate_distance with the coordinates already fetched.
distance_of(coords1, coords2) ==
    IF coords1 # <<>> /\ coords2 # <<>> THEN geodesic_km(coords1[1], coords2[1]) ELSE 0

(***************************************************************************)
(* The signal evaluators.                                                  *)
(***************************************************************************)
\* Mutant: the last odd hour is left out.
is_odd_hour_before_last(timestamp_str) ==
    IF strptime_ok(timestamp_str)
    THEN 0 <= hour_of(timestamp_str) /\ hour_of(timestamp_str) < ODD_HOUR_LAST
    ELSE FALSE

is_odd_hour(timestamp_str) ==
    IF strptime_ok(timestamp_str)
    THEN 0 <= hour_of(timestamp_str) /\ hour_of(timestamp_str) <= ODD_HOUR_LAST
    ELSE FALSE                                   \* except Exception: return False

\* The z-score as the fraction num/den of its square.
ZERO_Z == [num |-> 0, den |-> 1]

\* np.mean(amounts) as the fraction num/den.
np_mean(amounts) ==
    [num |-> SumOver(amounts, DOMAIN amounts), den |-> Len(amounts)]

\* Mutant: the sample standard deviation (divisor n - 1, ddof=1).
np_std_squared_ddof1(amounts) ==
    LET n == Len(amounts)
        S == SumOver(amounts, DOMAIN amounts)
        Q == SumOver([i \in DOMAIN amounts |-> amounts[i] * amounts[i]], DOMAIN amounts)
    IN  [num |-> n * Q - S * S, den |-> n * (n - 1)]

\* np.std(amounts) squared, as the fraction num/den: the mean of the squared
\* deviations from the mean (divisor n, numpy's default ddof=0).
np_std_squared(amounts) ==
    LET n == Len(amounts)
        S == SumOver(amounts, DOMAIN amounts)
        Q == SumOver([i \in DOMAIN amounts |-> amounts[i] * amounts[i]], DOMAIN amounts)
    IN  [num |-> n * Q - S * S, den |-> n * n]

\* Amounts of the documents at the positions W, in position order.
RECURSIVE AmountsOf(_, _)
AmountsOf(coll, W) ==
    IF W = {} THEN <<>>
    ELSE <<coll[FirstOf(W)].amount>> \o AmountsOf(coll, W \ {FirstOf(W)})

calculate_z_score(current_amount, coll, env) ==
    IF "transactions_find" \in env.faults THEN ZERO_Z          \* except: return 0
    ELSE IF Cardinality(env.recent) < MIN_WINDOW THEN ZERO_Z   \* not enough data
    ELSE LET amounts == AmountsOf(coll, env.recent)
             mean    == np_mean(amounts)
             std2    == np_std_squared(amounts)
             diff    == current_amount * mean.den - mean.num     \* (x - mean) * mean.den
         IN  IF std2.num = 0 THEN ZERO_Z                         \* std_amount == 0
             ELSE [num |-> diff * diff * std2.den,
                   den |-> mean.den * mean.den * std2.num]

\* z_score > bound, for bound >= 0.
z_exceeds(z, bound) == z.num > bound * bound * z.den

\* The locals of check_geographic_drift.
drift_locals(location, coll, env) ==
    LET failed == "transactions_find_one" \in env.faults
        last   == IF failed THEN <<>> ELSE env.last
        c1     == IF last = <<>> THEN <<>>
                  ELSE get_coordinates(location, "geocode_current" \in env.faults)
        c2     == IF last = <<>> THEN <<>>
                  ELSE get_coordinates(coll[last[1]].location, "geocode_last" \in env.faults)
    IN  [last_transaction |-> last, coords1 |-> c1, coords2 |-> c2]

\* Mutant: a distance of exactly 500 km counts as drift.
check_geographic_drift_at_least(location, coll, env) ==
    LET l == drift_locals(location, coll, env)
    IN  IF l.last_transaction = <<>> THEN FALSE
        ELSE distance_of(l.coords1, l.coords2) >= DRIFT_KM

check_geographic_drift(location, coll, env) ==
    LET l == drift_locals(location, coll, env)
    IN  IF l.last_transaction = <<>> THEN FALSE        \* no previous transaction, or except
        ELSE distance_of(l.coords1, l.coords2) > DRIFT_KM

(***************************************************************************)
(* detect_fraud.  A finding is its reason texts and its points.            *)
(***************************************************************************)
Finding(reason, points) == [reasons |-> <<reason>>, score |-> points]
NoFinding == [reasons |-> <<>>, score |-> 0]

check_blacklisted_ip(client_ip, blacklist) ==
    IF client_ip # <<>> /\ find_one(blacklist, "ip", client_ip[1]) # <<>>
    THEN Finding(REASON_IP, IP_WEIGHT) ELSE NoFinding

\* Mutant: the account is looked up among the "ip" entries.
check_blacklisted_account_as_ip(transaction, blacklist) ==
    IF find_one(blacklist, "ip", transaction.recipient_account_number) # <<>>
    THEN Finding(REASON_ACCOUNT, ACCOUNT_WEIGHT) ELSE NoFinding

check_blacklisted_account(transaction, blacklist) ==
    IF find_one(blacklist, "account", transaction.recipient_account_number) # <<>>
    THEN Finding(REASON_ACCOUNT, ACCOUNT_WEIGHT) ELSE NoFinding

check_odd_hours(transaction) ==
    IF is_odd_hour(transaction.timestamp)
    THEN Finding(REASON_ODD_HOUR, ODD_HOUR_WEIGHT) ELSE NoFinding

check_amount_anomaly(transaction, coll, env) ==
    IF z_exceeds(calculate_z_score(transaction.amount, coll, env), Z_THRESHOLD)
    THEN Finding(REASON_AMOUNT, AMOUNT_WEIGHT) ELSE NoFinding

\* Mutant: the drift finding adds the points of the amount finding.
check_drift_amount_points(transaction, coll, env) ==
    IF check_geographic_drift(transaction.location, coll, env)
    THEN Finding(REASON_DRIFT, AMOUNT_WEIGHT) ELSE NoFinding

check_drift(transaction, coll, env) ==
    IF check_geographic_drift(transaction.location, coll, env)
    THEN Finding(REASON_DRIFT, DRIFT_WEIGHT) ELSE NoFinding

\* Mutant: the verdict needs the threshold as well as a finding.
verdict_needs_threshold(fraud_reasons, risk_score) ==
    Len(fraud_reasons) > 0 /\ risk_score >= FRAUD_THRESHOLD

\* is_fraud = len(fraud_reasons) > 0 or risk_score >= 30
verdict(fraud_reasons, risk_score) ==
    Len(fraud_reasons) > 0 \/ risk_score >= FRAUD_THRESHOLD

\* The blacklist lookups are not inside a try: a failing one raises.
lookup_raises(client_ip, env) ==
    \/ client_ip # <<>> /\ "blacklist_find_ip" \in env.faults
    \/ "blacklist_find_account" \in env.faults

\* The findings of detect_fraud in evaluation order.
findings_of(transaction, client_ip, blacklist, coll, env) ==
    << check_blacklisted_ip(client_ip, blacklist),
       check_blacklisted_account(transaction, blacklist),
       check_odd_hours(transaction),
       check_amount_anomaly(transaction, coll, env),
       check_drift(transaction, coll, env) >>

RECURSIVE ReasonsOf(_)
ReasonsOf(f) == IF f = <<>> THEN <<>> ELSE Head(f).reasons \o ReasonsOf(Tail(f))

RECURSIVE ScoreOf(_)
ScoreOf(f) == IF f = <<>> THEN 0 ELSE Head(f).score + ScoreOf(Tail(f))

\* fraud_reasons and risk_score accumulated over the findings, and the verdict.
aggregate(f) ==
    [raised |-> FALSE, is_fraud |-> verdict(ReasonsOf(f), ScoreOf(f)),
     fraud_reasons |-> ReasonsOf(f), risk_score |-> ScoreOf(f)]

\* detect_fraud(transaction, client_ip): raised, or the returned triple.
detect_fraud(transaction, client_ip, blacklist, coll, env) ==
    IF lookup_raises(client_ip, env)
    THEN [raised |-> TRUE, is_fraud |-> FALSE, fraud_reasons |-> <<>>, risk_score |-> 0]
    ELSE aggregate(findings_of(transaction, client_ip, blacklist, coll, env))

(***************************************************************************)
(* The record of one handler invocation: input, locals and response.       *)
(***************************************************************************)
NoCall ==
    [op |-> "none", transaction |-> <<>>, client_ip |-> <<>>, status |-> 0,
     lookup_failed |-> FALSE, raised |-> FALSE, is_fraud |-> FALSE, fraud_reasons |-> <<>>, risk_score |-> 0,
     window_read |-> FALSE, recent_transactions |-> {},
     last_read |-> FALSE, last_transaction |-> <<>>, coords1 |-> <<>>, coords2 |-> <<>>]

\* The invocation of detect_fraud (from handler `op`) with outcome `status`.
CallRecord(op, transaction, client_ip, coll, env, d, status) ==
    LET evaluated == ~d.raised
        window_read == evaluated /\ "transactions_find" \notin env.faults
        l == drift_locals(transaction.location, coll, env)
    IN  [op |-> op, transaction |-> <<transaction>>, client_ip |-> client_ip,
         status |-> status,
         lookup_failed |-> \/ client_ip # <<>> /\ "blacklist_find_ip" \in env.faults
                           \/ "blacklist_find_account" \in env.faults,
         raised |-> d.raised,
         is_fraud |-> d.is_fraud, fraud_reasons |-> d.fraud_reasons,
         risk_score |-> d.risk_score,
         window_read |-> window_read,
         recent_transactions |-> IF window_read THEN env.recent ELSE {},
         last_read |-> evaluated /\ "transactions_find_one" \notin env.faults,
         last_transaction |-> IF evaluated THEN l.last_transaction ELSE <<>>,
         coords1 |-> IF evaluated THEN l.coords1 ELSE <<>>,
         coords2 |-> IF evaluated THEN l.coords2 ELSE <<>>]

(***************************************************************************)
(* initialize_blacklist (startup).                                         *)
(***************************************************************************)
\* The upserts of initialize_blacklist in program order.
PredefinedEntries ==
    [i \in 1..Len(BLACKLISTED_IPS) |-> [type |-> "ip", value |-> BLACKLISTED_IPS[i]]]
    \o [i \in 1..Len(BLACKLISTED_ACCOUNTS) |->
            [type |-> "account", value |-> BLACKLISTED_ACCOUNTS[i]]]

RECURSIVE upsert_predefined(_, _, _)
\* The first k upserts of initialize_blacklist applied to coll at time t.
upsert_predefined(coll, k, t) ==
    IF k = 0 THEN coll
    ELSE LET e == PredefinedEntries[k]
         IN  update_one(upsert_predefined(coll, k - 1, t), e.type, e.value,
                        [type |-> e.type, value |-> e.value, added_at |-> t])

\* initialize_blacklist(): the store fails at upsert k + 1 (the exception is
\* logged and swallowed), or all upserts are done.
initialize_blacklist(k) ==
    /\ blacklist_collection' = upsert_predefined(blacklist_collection, k, now)
    /\ now' = now + 1
    /\ call' = [NoCall EXCEPT !.op = "initialize_blacklist"]
    /\ UNCHANGED <<transactions_collection, inflight>>

(***************************************************************************)
(* POST /check_fraud                                                       *)
(***************************************************************************)
transaction_doc(transaction, d, username, checked_at) ==
    [transaction_id |-> transaction.transaction_id,
     timestamp |-> transaction.timestamp,
     amount |-> transaction.amount,
     location |-> transaction.location,
     card_type |-> transaction.card_type,
     currency |-> transaction.currency,
     recipient_account_number |-> transaction.recipient_account_number,
     is_fraud |-> d.is_fraud,
     fraud_reasons |-> d.fraud_reasons,
     risk_score |-> d.risk_score,
     checked_by |-> username,
     checked_at |-> checked_at]

\* Mutant: the recipient is blacklisted whatever the verdict.
blacklist_feedback_always(blacklist, transaction, is_fraud, t) ==
    update_one(blacklist, "account", transaction.recipient_account_number,
               [type |-> "account",
                value |-> transaction.recipient_account_number,
                added_at |-> t,
                reason |-> REASON_FEEDBACK])

\* The blacklist after the feedback step of check_fraud.
blacklist_feedback(blacklist, transaction, is_fraud, t) ==
    IF is_fraud
    THEN update_one(blacklist, "account", transaction.recipient_account_number,
                    [type |-> "account",
                     value |-> transaction.recipient_account_number,
                     added_at |-> t,
                     reason |-> REASON_FEEDBACK])
    ELSE blacklist

\* The handler, with d the outcome of its call of detect_fraud.
check_fraud_steps(transaction, username, env, d) ==
    LET inserted == ~d.raised /\ "insert_one" \notin env.faults
        updated  == inserted /\ ~(d.is_fraud /\ "update_one" \in env.faults)
    IN  /\ transactions_collection' =
              IF inserted
              THEN Append(transactions_collection,
                          transaction_doc(transaction, d, username, now))
              ELSE transactions_collection
        /\ blacklist_collection' =
              IF updated
              THEN blacklist_feedback(blacklist_collection, transaction, d.is_fraud, now)
              ELSE blacklist_collection
        /\ call' = CallRecord("check_fraud", transaction, <<>>,
                              transactions_collection, env, d,
                              IF updated THEN 200 ELSE 500)
        /\ now' = now + 1
        /\ UNCHANGED inflight

\* Mutant: the handler passes a client address to detect_fraud.
check_fraud_endpoint_with_ip(transaction, username, env) ==
    \E d \in {detect_fraud(transaction, <<"10.0.0.50">>, blacklist_collection,
                           transactions_collection, env)} :
        check_fraud_steps(transaction, username, env, d)

check_fraud_endpoint(transaction, username, env) ==
    \E d \in {detect_fraud(transaction, <<>>, blacklist_collection,
                           transactions_collection, env)} :
        check_fraud_steps(transaction, username, env, d)

\* detect_fraud called on its own, with an optional client address.
detect_fraud_call(transaction, client_ip, env) ==
    \E d \in {detect_fraud(transaction, client_ip, blacklist_collection,
                           transactions_collection, env)} :
        /\ call' = CallRecord("detect_fraud", transaction, client_ip,
                              transactions_collection, env, d,
                              IF d.raised THEN 500 ELSE 200)
        /\ UNCHANGED <<blacklist_collection, transactions_collection, now, inflight>>

(***************************************************************************)
(* POST /check_fraud store call by store call, in several server processes *)
(* on one database.  The handler is an `async def` without an await and    *)
(* its store calls block, so the event loop of a process serves one        *)
(* request to its end before the next; between the store calls of one      *)
(* process those of another process may take place.                        *)
(***************************************************************************)
Processes == 1..MaxProcesses

\* A process serving no request.  `base` is the length of the history when
\* detect_fraud read it, `pos` the position of the record the request inserted.
IdleTask == [pc |-> "idle", rec |-> NoCall, base |-> 0, pos |-> 0]

\* Mutant: the new document is placed before the stored ones.
insert_one_first(coll, doc) == <<doc>> \o coll

\* collection.insert_one(doc)
insert_one(coll, doc) == Append(coll, doc)

\* Process p takes a request and runs detect_fraud(transaction).
check_fraud_detect(p, transaction, env) ==
    /\ inflight[p].pc \in {"idle", "done"}
    /\ \E d \in {detect_fraud(transaction, <<>>, blacklist_collection,
                              transactions_collection, env)} :
          inflight' = [inflight EXCEPT ![p] =
              [pc |-> "detected",
               rec |-> CallRecord("check_fraud", transaction, <<>>,
                                  transactions_collection, env, d, 0),
               base |-> Len(transactions_collection),
               pos |-> 0]]
    /\ now' = now + 1
    /\ UNCHANGED <<blacklist_collection, transactions_collection, call>>

\* Process p stores the transaction with the assessment it computed.
check_fraud_insert(p, username) ==
    /\ inflight[p].pc = "detected"
    /\ transactions_collection' =
          insert_one(transactions_collection,
                     transaction_doc(inflight[p].rec.transaction[1], inflight[p].rec,
                                     username, now))
    /\ inflight' = [inflight EXCEPT ![p].pc = "inserted",
                                    ![p].pos = Len(transactions_collection) + 1]
    /\ UNCHANGED <<blacklist_collection, now, call>>

\* Process p writes the feedback, if any, and responds.
check_fraud_respond(p) ==
    /\ inflight[p].pc = "inserted"
    /\ blacklist_collection' =
          blacklist_feedback(blacklist_collection, inflight[p].rec.transaction[1],
                             inflight[p].rec.is_fraud, now)
    /\ call' = [inflight[p].rec EXCEPT !.status = 200]
    /\ inflight' = [inflight EXCEPT ![p].pc = "done", ![p].rec.status = 200]
    /\ UNCHANGED <<transactions_collection, now>>

(***************************************************************************)
(* Handlers as actions: over a set of request bodies, a set of external    *)
(* calls that may fail, and within a budget of clock ticks.                *)
(***************************************************************************)
Usernames == {"analyst"}

Tx(id, ts, amount, location, card, recipient) ==
    [transaction_id |-> id, timestamp |-> ts, amount |-> amount,
     location |-> location, card_type |-> card, currency |-> "USD",
     recipient_account_number |-> recipient]

\* Startup; `stops` are the numbers of upserts after which the store may fail.
Startup(stops, budget) ==
    /\ now < budget
    /\ \E k \in stops : initialize_blacklist(k)

Requests(transactions, faulty, budget) ==
    /\ now < budget
    /\ \E transaction \in transactions, username \in Usernames :
         \E env \in Envs(transactions_collection, transaction.card_type, faulty) :
            check_fraud_endpoint(transaction, username, env)

EngineCalls(transactions, client_ips, faulty) ==
    \E transaction \in transactions, client_ip \in client_ips :
       \E env \in Envs(transactions_collection, transaction.card_type, faulty) :
          detect_fraud_call(transaction, client_ip, env)

Init ==
    /\ blacklist_collection = <<>>
    /\ transactions_collection = <<>>
    /\ now = 0
    /\ call = NoCall
    /\ inflight = [p \in Processes |-> IdleTask]

(***************************************************************************)
(* Spec: the service.  Startups (which may fail part-way) and requests,    *)
(* one at a time, for two recipients, night and day, two places.           *)
(***************************************************************************)
TS_NIGHT == <<2024, 1, 1, 3, 0, 0>>     \* "2024-01-01 03:00:00"
TS_DAY   == <<2024, 1, 2, 12, 0, 0>>    \* "2024-01-02 12:00:00"

StartupStops == 0..Len(PredefinedEntries)

ServiceTransactions ==
    {Tx("TX1", ts, 1, l, "visa", r) :
        ts \in {TS_NIGHT, TS_DAY}, l \in {"Chennai", "Mumbai"},
        r \in {"ACC123456789", "ACC-NEW"}}

ServiceFaults == {"blacklist_find_account", "insert_one", "update_one"}

InitializeBlacklist == Startup(StartupStops, MaxOps)

CheckFraud == Requests(ServiceTransactions, ServiceFaults, MaxOps)

Next == InitializeBlacklist \/ CheckFraud

Spec == Init /\ [][Next]_vars

(***************************************************************************)
(* SpecEngine: the engine on its own.  Three requests build up a history   *)
(* and a blacklist; detect_fraud is then called directly, with and without *)
(* a client address.  A direct call changes no store, so nothing new       *)
(* follows it: it ends the explored behaviour.                             *)
(***************************************************************************)
EngineSeeds ==
    {Tx("TX1", TS_NIGHT, 1, "Chennai", "visa", "ACC-NEW"),
     Tx("TX2", TS_DAY,   5, "Chennai", "visa", "ACC-NEW"),
     Tx("TX3", TS_NIGHT, 8, "Mumbai",  "visa", "ACC-NEW")}

EngineTransactions ==
    {Tx("TX9", ts, a, l, "visa", r) :
        ts \in {TS_NIGHT, TS_DAY}, a \in {5, 8}, l \in {"Chennai", "Mumbai"},
        r \in {"ACC-NEW", "ACC-OTHER"}}

ClientIps == {<<>>, <<"10.0.0.50">>, <<"127.0.0.1">>}

EngineStartupStops == {Len(BLACKLISTED_IPS), Len(PredefinedEntries)}

EngineFaults == {"transactions_find", "geocode_current"}

\* A direct call of detect_fraud writes to no collection: a behaviour ends with it.
NoDirectCallYet == call.op # "detect_fraud"

EngineStartup == NoDirectCallYet /\ Startup(EngineStartupStops, MaxOps)

EngineRequests == NoDirectCallYet /\ Requests(EngineSeeds, EngineFaults, MaxOps)

DetectFraud ==
    NoDirectCallYet /\ EngineCalls(EngineTransactions, ClientIps, EngineFaults)

EngineNext == EngineStartup \/ EngineRequests \/ DetectFraud

SpecEngine == Init /\ [][EngineNext]_vars

(***************************************************************************)
(* SpecHours: every hour of the day, and timestamps strptime rejects.      *)
(* Requests (one of them with an empty timestamp) build up the stores;     *)
(* detect_fraud is then called for each timestamp.                         *)
(***************************************************************************)
WellFormedTimestamps == {<<2024, 1, 3, h, 30, 59>> : h \in 0..23}

MalformedTimestamps ==
    {<<>>,                          \* ""
     <<2024, 1, 3>>,                \* "2024-01-03"
     <<2024, 1, 3, 24, 0, 0>>,      \* "2024-01-03 24:00:00"
     <<2024, 2, 30, 3, 0, 0>>,      \* "2024-02-30 03:00:00"
     <<2024, 13, 1, 2, 0, 0>>,      \* "2024-13-01 02:00:00"
     <<2024, 1, 3, 1, 60, 0>>}      \* "2024-01-03 01:60:00"

HourSeeds == EngineSeeds \cup {Tx("TX4", <<>>, 8, "Mumbai", "visa", "ACC-NEW")}

HourTransactions ==
    {Tx("TX9", ts, 8, "Mumbai", "visa", "ACC-NEW") :
        ts \in WellFormedTimestamps \cup MalformedTimestamps}

HourRequests == NoDirectCallYet /\ Requests(HourSeeds, {}, MaxOps)

HourCalls == NoDirectCallYet /\ EngineCalls(HourTransactions, {<<>>}, {})

HourNext == HourRequests \/ HourCalls

SpecHours == Init /\ [][HourNext]_vars

(***************************************************************************)
(* SpecWindow: a history that outgrows the window of five.  Requests of    *)
(* two amounts, older and newer, on two card types; detect_fraud is then   *)
(* called for small and large amounts on either card.  On these amounts    *)
(* the float arithmetic of numpy and the exact fractions used here decide  *)
(* "std == 0" and "z > 2" alike.                                           *)
(***************************************************************************)
TS_OLDER == <<2024, 1, 1, 12, 0, 0>>    \* "2024-01-01 12:00:00"

WindowSeeds ==
    {Tx("TXA", TS_OLDER, 500, "Chennai", "visa", "ACC-OTHER"),
     Tx("TXB", TS_DAY,   100, "Chennai", "visa", "ACC-OTHER"),
     Tx("TXC", TS_DAY,   500, "Chennai", "amex", "ACC-OTHER")}

WindowTransactions ==
    {Tx("TXB", TS_DAY, a, "Chennai", "visa", "ACC-OTHER") : a \in {100, 800, 1000}}
      \cup {Tx("TXC", TS_DAY, 800, "Chennai", "amex", "ACC-OTHER")}

WindowRequests == NoDirectCallYet /\ Requests(WindowSeeds, {}, MaxWindowOps)

WindowCalls ==
    NoDirectCallYet /\ EngineCalls(WindowTransactions, {<<>>}, {"transactions_find"})

WindowNext == WindowRequests \/ WindowCalls

SpecWindow == Init /\ [][WindowNext]_vars

(***************************************************************************)
(* SpecGeo: requests from places 0, 500 and 501 km along a line and from a *)
(* place the resolver does not know, at two timestamps and on two card     *)
(* types; detect_fraud is then called from each place while the history    *)
(* lookup or either resolver call may fail.                                *)
(***************************************************************************)
GeoSeeds ==
    {Tx("TXG", ts, 1, loc, "visa", "ACC-OTHER") : ts \in {TS_OLDER, TS_DAY}, loc \in Places}
      \cup {Tx("TXH", TS_DAY, 1, "Mumbai", "amex", "ACC-OTHER")}

GeoTransactions ==
    {Tx("TXP", TS_DAY, 1, loc, c, "ACC-OTHER") : loc \in Places, c \in {"visa", "amex"}}

GeoFaults == {"transactions_find_one", "geocode_current", "geocode_last"}

GeoRequests == NoDirectCallYet /\ Requests(GeoSeeds, {}, MaxOps)

GeoCalls == NoDirectCallYet /\ EngineCalls(GeoTransactions, {<<>>}, GeoFaults)

GeoNext == GeoRequests \/ GeoCalls

SpecGeo == Init /\ [][GeoNext]_vars

(***************************************************************************)
(* SpecRace: server processes on one database serve requests from two      *)
(* places 501 km apart on one card type, and one on another card type.     *)
(***************************************************************************)
RaceTransactions ==
    {Tx("TXR1", TS_DAY, 100, "Chennai", "visa", "ACC-R1"),
     Tx("TXR2", TS_DAY, 100, "Mumbai",  "visa", "ACC-R2"),
     Tx("TXR3", TS_DAY, 100, "Mumbai",  "amex", "ACC-R3")}

RaceDetect ==
    /\ now < MaxOps
    /\ \E p \in Processes, transaction \in RaceTransactions :
         \E env \in Envs(transactions_collection, transaction.card_type, {}) :
            check_fraud_detect(p, transaction, env)

RaceInsert == \E p \in Processes, username \in Usernames : check_fraud_insert(p, username)

RaceRespond == \E p \in Processes : check_fraud_respond(p)

RaceNext == RaceDetect \/ RaceInsert \/ RaceRespond

SpecRace == Init /\ [][RaceNext]_vars

(***************************************************************************)
(* Vocabulary of the properties.                                           *)
(***************************************************************************)
\* The step just taken evaluated a transaction and detect_fraud returned.
Assessed(c) == c.op \in {"check_fraud", "detect_fraud"} /\ ~c.raised

\* The blacklist holds an entry of this kind and value.
Listed(blacklist, kind, value) ==
    \E i \in 1..Len(blacklist) : blacklist[i].type = kind /\ blacklist[i].value = value

KeysOf(blacklist) ==
    {<<blacklist[i].type, blacklist[i].value>> : i \in 1..Len(blacklist)}

\* The fixed weight of a finding, by its reason text.
WeightOf(reason) ==
    CASE reason = "Blacklisted IP address" -> 30
      [] reason = "Blacklisted recipient account" -> 40
      [] reason = "Transaction at odd hours (12 AM - 4 AM)" -> 15
      [] reason = "Abnormal transaction amount (z-score: {z_score:.2f})" -> 20
      [] reason = "Geographic drift detected (>500km from last location)" -> 25
      [] OTHER -> 0

\* Sum of the weights of the distinct reasons in a list.
WeightsOf(reasons) ==
    SumOver([r \in Range(reasons) |-> WeightOf(r)], Range(reasons))

(***************************************************************************)
(* C1: whenever the recipient account of an evaluated transaction is in    *)
(* the blacklist under kind "account" when the evaluation reads it, the    *)
(* assessment has is_fraud true, lists "Blacklisted recipient account"     *)
(* exactly once, and its risk_score is 40 plus the weights of the other    *)
(* findings it lists.                                                      *)
(***************************************************************************)
C1_BlacklistedRecipient ==
    [][ (Assessed(call') /\
         Listed(blacklist_collection, "account",
                call'.transaction[1].recipient_account_number))
        => /\ call'.is_fraud = TRUE
           /\ Count(call'.fraud_reasons, "Blacklisted recipient account") = 1
           /\ call'.risk_score =
                40 + WeightsOf(SelectSeq(call'.fraud_reasons,
                          LAMBDA r : r # "Blacklisted recipient account")) ]_vars

\* A request to a blacklisted recipient at night, far from the last place.
C1_Witness ==
    /\ call.op = "check_fraud" /\ call.status = 200
    /\ Count(call.fraud_reasons, "Blacklisted recipient account") = 1
    /\ call.risk_score = 80

(***************************************************************************)
(* C4: across startups and requests the blacklist never holds two entries  *)
(* with the same (type, value), and no (type, value) present before a step *)
(* is missing after it.                                                    *)
(***************************************************************************)
C4_UniqueAndKept ==
    [][ /\ \A i, j \in 1..Len(blacklist_collection') :
              (/\ blacklist_collection'[i].type = blacklist_collection'[j].type
               /\ blacklist_collection'[i].value = blacklist_collection'[j].value)
              => i = j
        /\ KeysOf(blacklist_collection) \subseteq KeysOf(blacklist_collection') ]_vars

\* The same fraudulent transaction was evaluated and stored twice; its
\* recipient has one entry, refreshed by the second evaluation.
C4_Witness ==
    \E i, j \in 1..Len(transactions_collection) :
        /\ i < j
        /\ transactions_collection[i].is_fraud /\ transactions_collection[j].is_fraud
        /\ transactions_collection[i].timestamp = transactions_collection[j].timestamp
        /\ transactions_collection[i].location = transactions_collection[j].location
        /\ transactions_collection[i].recipient_account_number = "ACC-NEW"
        /\ transactions_collection[j].recipient_account_number = "ACC-NEW"
        /\ Cardinality({k \in 1..Len(blacklist_collection) :
                          blacklist_collection[k].value = "ACC-NEW"}) = 1
        /\ \E k \in 1..Len(blacklist_collection) :
              /\ blacklist_collection[k].value = "ACC-NEW"
              /\ blacklist_collection[k].added_at = transactions_collection[j].checked_at

(***************************************************************************)
(* C5: a request that computes is_fraud = true and completes leaves the    *)
(* entry ("account", its recipient) with reason "Fraudulent transaction    *)
(* detected" in the blacklist; such an entry stays, and every later        *)
(* evaluation for that recipient lists "Blacklisted recipient account"; a  *)
(* request with is_fraud = false leaves the blacklist unchanged; and a     *)
(* request changes or adds no entry other than that of its own recipient.  *)
(***************************************************************************)
FeedbackEntry(blacklist, account) ==
    \E i \in 1..Len(blacklist) :
        /\ blacklist[i].type = "account" /\ blacklist[i].value = account
        /\ "reason" \in DOMAIN blacklist[i]
        /\ blacklist[i].reason = "Fraudulent transaction detected"

C5_FeedbackOnVerdict ==
    [][ /\ (call'.op = "check_fraud" /\ call'.is_fraud /\ call'.status = 200)
            => FeedbackEntry(blacklist_collection',
                             call'.transaction[1].recipient_account_number)
        /\ (call'.op = "check_fraud" /\ ~call'.is_fraud)
            => blacklist_collection' = blacklist_collection
        /\ call'.op = "check_fraud"
            => /\ Len(blacklist_collection') <= Len(blacklist_collection) + 1
               /\ \A i \in 1..Len(blacklist_collection') :
                     \/ /\ i <= Len(blacklist_collection)
                        /\ blacklist_collection'[i] = blacklist_collection[i]
                     \/ /\ blacklist_collection'[i].type = "account"
                        /\ blacklist_collection'[i].value =
                              call'.transaction[1].recipient_account_number
        /\ \A account \in {"ACC123456789", "ACC-NEW"} :
              FeedbackEntry(blacklist_collection, account)
              => /\ FeedbackEntry(blacklist_collection', account)
                 /\ (Assessed(call') /\
                     call'.transaction[1].recipient_account_number = account)
                    => Count(call'.fraud_reasons, "Blacklisted recipient account") = 1
      ]_vars

\* After a completed fraud verdict for ACC-NEW, a daytime request to it from
\* the same place is flagged for the blacklisted recipient alone.
C5_Witness ==
    /\ call.op = "check_fraud" /\ call.status = 200
    /\ call.transaction[1].recipient_account_number = "ACC-NEW"
    /\ call.fraud_reasons = <<"Blacklisted recipient account">>
    /\ FeedbackEntry(blacklist_collection, "ACC-NEW")
    /\ \E i \in 1..Len(transactions_collection) :
          /\ transactions_collection[i].recipient_account_number = "ACC-NEW"
          /\ transactions_collection[i].fraud_reasons =
                <<"Transaction at odd hours (12 AM - 4 AM)">>

(***************************************************************************)
(* C6: when a blacklist lookup fails during a request, the caller still    *)
(* receives an assessment (the lookup counts as "not blacklisted" and the  *)
(* other evaluators run): the request does not end in an error.            *)
(***************************************************************************)
C6_LookupFailureFailsOpen ==
    (call.op = "check_fraud" /\ call.lookup_failed)
    => /\ call.status = 200
       /\ Count(call.fraud_reasons, "Blacklisted recipient account") = 0

(***************************************************************************)
(* C2: the risk_score of every assessment, and of every stored             *)
(* transaction record, is the sum of the fixed weights of the findings in  *)
(* its fraud_reasons, none of which is listed twice; the record stored by  *)
(* check_fraud carries the assessment it returned.                         *)
(***************************************************************************)
ScoreMatchesReasons(reasons, score) ==
    /\ \A i, j \in 1..Len(reasons) : reasons[i] = reasons[j] => i = j
    /\ \A i \in 1..Len(reasons) : WeightOf(reasons[i]) > 0
    /\ score = SumOver([i \in 1..Len(reasons) |-> WeightOf(reasons[i])],
                       1..Len(reasons))

C2_ScoreIsSumOfWeights ==
    /\ Assessed(call) => ScoreMatchesReasons(call.fraud_reasons, call.risk_score)
    /\ \A i \in 1..Len(transactions_collection) :
          ScoreMatchesReasons(transactions_collection[i].fraud_reasons,
                              transactions_collection[i].risk_score)
    /\ (call.op = "check_fraud" /\ call.status = 200)
          => LET doc == transactions_collection[Len(transactions_collection)]
             IN  /\ doc.is_fraud = call.is_fraud
                 /\ doc.fraud_reasons = call.fraud_reasons
                 /\ doc.risk_score = call.risk_score

\* All five findings at once, after a request whose record holds three.
C2_Witness ==
    /\ call.op = "detect_fraud" /\ call.risk_score = 130
    /\ Len(call.fraud_reasons) = 5
    /\ \E i \in 1..Len(transactions_collection) :
          transactions_collection[i].risk_score = 40

(***************************************************************************)
(* C3: in every assessment and every stored record is_fraud is true        *)
(* exactly when fraud_reasons is non-empty; with no finding the score is 0 *)
(* and fraud_reasons is empty; and a score of 30 or more never comes       *)
(* without a finding, so the threshold clause never decides the verdict.   *)
(***************************************************************************)
VerdictIsAnyFinding(is_fraud, reasons, score) ==
    /\ is_fraud <=> Len(reasons) > 0
    /\ Len(reasons) = 0 => (score = 0 /\ ~is_fraud)
    /\ score >= 30 => Len(reasons) > 0

C3_FraudIffAnyFinding ==
    /\ Assessed(call)
          => VerdictIsAnyFinding(call.is_fraud, call.fraud_reasons, call.risk_score)
    /\ \A i \in 1..Len(transactions_collection) :
          VerdictIsAnyFinding(transactions_collection[i].is_fraud,
                              transactions_collection[i].fraud_reasons,
                              transactions_collection[i].risk_score)

\* A request with history to compare against and no finding, after a
\* request flagged on a single 15-point finding.
C3_Witness ==
    /\ Assessed(call) /\ call.fraud_reasons = <<>>
    /\ ~call.is_fraud /\ call.risk_score = 0
    /\ call.last_transaction # <<>>
    /\ \E i \in 1..Len(transactions_collection) :
          /\ transactions_collection[i].is_fraud
          /\ transactions_collection[i].risk_score = 15

(***************************************************************************)
(* C7: for a well-formed timestamp the odd-hour finding is listed (once,   *)
(* adding 15 to the weights of the other findings) exactly when the hour   *)
(* is in 0..4; a timestamp strptime rejects gives no odd-hour finding, and *)
(* the evaluation still returns an assessment with the other findings.     *)
(***************************************************************************)
OddHourListed(c) == Count(c.fraud_reasons, "Transaction at odd hours (12 AM - 4 AM)")

OtherThanOddHour(c) ==
    SelectSeq(c.fraud_reasons,
              LAMBDA r : r # "Transaction at odd hours (12 AM - 4 AM)")

C7_OddHourRule ==
    call.op \in {"check_fraud", "detect_fraud"} =>
        LET ts == call.transaction[1].timestamp
        IN  /\ ~call.lookup_failed => Assessed(call)
            /\ (Assessed(call) /\ ts \in WellFormedTimestamps \cup {TS_NIGHT, TS_DAY})
                  => /\ OddHourListed(call) = (IF ts[4] \in 0..4 THEN 1 ELSE 0)
                     /\ call.risk_score =
                           (IF ts[4] \in 0..4 THEN 15 ELSE 0)
                              + WeightsOf(OtherThanOddHour(call))
            /\ (Assessed(call) /\ ts \in MalformedTimestamps)
                  => /\ OddHourListed(call) = 0
                     /\ call.risk_score = WeightsOf(call.fraud_reasons)

\* A malformed timestamp, and the other three findings all listed.
C7_Witness ==
    /\ Assessed(call)
    /\ call.transaction[1].timestamp = <<2024, 2, 30, 3, 0, 0>>
    /\ call.risk_score = 85 /\ Len(call.fraud_reasons) = 3

(***************************************************************************)
(* C8 as claimed: over the window of the (at most) 5 newest records of the *)
(* transaction's card type, no amount finding with fewer than 2 records or *)
(* a standard deviation of 0, otherwise the finding exactly when           *)
(* |amount - mean| / stddev > 2 with the SAMPLE standard deviation         *)
(* (divisor n - 1).                                                        *)
(* C8 as amended: the same with the POPULATION standard deviation          *)
(* (divisor n), and no finding when the history query fails.               *)
(***************************************************************************)
AmountListed(c) ==
    Count(c.fraud_reasons, "Abnormal transaction amount (z-score: {z_score:.2f})")

\* W is a result of "the (at most) 5 newest of the card type" on history coll.
IsNewestWindow(coll, card_type, W) ==
    LET same == {i \in 1..Len(coll) : coll[i].card_type = card_type}
    IN  /\ W \subseteq same
        /\ Cardinality(W) = IF Cardinality(same) < 5 THEN Cardinality(same) ELSE 5
        /\ \A i \in W : \A j \in same \ W :
               ~StrLess(coll[i].timestamp, coll[j].timestamp)

\* n^2 times the population variance of the amounts at W.
ScaledVariance(coll, W) ==
    Cardinality(W) * SumOver([i \in W |-> coll[i].amount * coll[i].amount], W)
      - SumOver([i \in W |-> coll[i].amount], W) * SumOver([i \in W |-> coll[i].amount], W)

\* n times (amount - mean), squared.
ScaledDeviation2(coll, W, amount) ==
    (Cardinality(W) * amount - SumOver([i \in W |-> coll[i].amount], W))
      * (Cardinality(W) * amount - SumOver([i \in W |-> coll[i].amount], W))

\* The rule, with the divisor n - ddof in the standard deviation.
AmountRule(coll, c, ddof) ==
    LET W == c.recent_transactions
        n == Cardinality(W)
        x == c.transaction[1].amount
    IN  /\ IsNewestWindow(coll, c.transaction[1].card_type, W)
        /\ AmountListed(c) =
             IF /\ n >= 2
                /\ ScaledVariance(coll, W) # 0
                /\ (n - ddof) * ScaledDeviation2(coll, W, x)
                      > 4 * n * ScaledVariance(coll, W)
             THEN 1 ELSE 0

DriftListed(c) ==
    Count(c.fraud_reasons, "Geographic drift detected (>500km from last location)")

\* `last` is what "the newest record of the card type" may return on coll.
IsNewestOfCard(coll, card_type, last) ==
    LET same == {i \in 1..Len(coll) : coll[i].card_type = card_type}
    IN  IF same = {} THEN last = <<>>
        ELSE /\ last # <<>>
             /\ last[1] \in same
             /\ \A j \in same : ~StrLess(coll[last[1]].timestamp, coll[j].timestamp)

C9_DriftRule ==
    [][ (call'.op \in {"check_fraud", "detect_fraud"} /\ ~call'.lookup_failed) =>
          LET c    == call'
              coll == transactions_collection
              tx   == c.transaction[1]
              last == c.last_transaction
          IN  /\ ~c.raised
              /\ IF c.last_read THEN IsNewestOfCard(coll, tx.card_type, last)
                                ELSE last = <<>>
              /\ last # <<>> =>
                    /\ c.coords1 \in {<<>>, geocode(tx.location)}
                    /\ c.coords2 \in {<<>>, geocode(coll[last[1]].location)}
              /\ DriftListed(c) =
                    IF /\ last # <<>>
                       /\ c.coords1 # <<>>
                       /\ c.coords2 # <<>>
                       /\ Abs(c.coords1[1] - c.coords2[1]) > 500
                    THEN 1 ELSE 0
              /\ c.risk_score =
                    25 * DriftListed(c)
                      + WeightsOf(SelectSeq(c.fraud_reasons,
                           LAMBDA r : r # "Geographic drift detected (>500km from last location)"))
      ]_vars

\* A call from 501 km away from the newest record of its card type, while an
\* older record of that card type lies at the caller's own place.
C9_Witness ==
    /\ Assessed(call)
    /\ call.last_transaction # <<>>
    /\ call.coords1 = <<501>> /\ call.coords2 = <<0>>
    /\ \E i \in 1..Len(transactions_collection) :
          /\ transactions_collection[i].card_type = call.transaction[1].card_type
          /\ transactions_collection[i].location = "Mumbai"
          /\ transactions_collection[i].timestamp = <<2024, 1, 1, 12, 0, 0>>
    /\ DriftListed(call) = 1

(***************************************************************************)
(* C10: in every evaluation the window read by the amount check holds only *)
(* records of the transaction's card type, and no record of the            *)
(* transaction being evaluated (none with its transaction_id), also when   *)
(* the same transaction was submitted before.                              *)
(***************************************************************************)
C10_WindowExcludesCurrent ==
    [][ (Assessed(call') /\ call'.window_read) =>
          \A i \in call'.recent_transactions :
             /\ i \in 1..Len(transactions_collection)
             /\ transactions_collection[i].card_type = call'.transaction[1].card_type
             /\ transactions_collection[i].transaction_id
                   # call'.transaction[1].transaction_id
      ]_vars

(***************************************************************************)
(* C11: nothing orders the store calls of check_fraud evaluations served   *)
(* by different processes.  Always: an evaluation's amount window and last *)
(* record are the newest of its card type among the records stored when it *)
(* read the history, its findings follow from those alone, and its own     *)
(* record is stored after that, so it never has the record of an           *)
(* evaluation that had not yet inserted.  Reachable: two evaluations on    *)
(* one card type each read a history without the other's transaction, and  *)
(* the pair of assessments is one that neither serial order produces.      *)
(***************************************************************************)
\* The fraud_reasons the evaluation of `second` can get when it runs after
\* the whole evaluation of `first`, both starting from an empty database.
SerialReasons(first, second) ==
    LET d1    == detect_fraud(first, <<>>, <<>>, <<>>,
                              [faults |-> {}, recent |-> {}, last |-> <<>>])
        coll1 == <<transaction_doc(first, d1, "analyst", 0)>>
        bl1   == blacklist_feedback(<<>>, first, d1.is_fraud, 0)
    IN  {detect_fraud(second, <<>>, bl1, coll1, env).fraud_reasons :
            env \in Envs(coll1, second.card_type, {})}

IpListed(reasons) == Count(reasons, "Blacklisted IP address")

C12_CheckFraudWithoutClientIp ==
    /\ call.op = "check_fraud" =>
          /\ call.client_ip = <<>>
          /\ IpListed(call.fraud_reasons) = 0
          /\ call.risk_score <= 100
    /\ \A i \in 1..Len(transactions_collection) :
          /\ IpListed(transactions_collection[i].fraud_reasons) = 0
          /\ transactions_collection[i].risk_score <= 100

\* A check_fraud assessment with findings, returned and stored while the
\* blacklist holds the predefined "ip" entries.
C12_Witness ==
    /\ call.op = "check_fraud" /\ call.status = 200
    /\ call.is_fraud
    /\ \A k \in 1..5 :
          Listed(blacklist_collection, "ip",
                 <<"192.168.1.100", "10.0.0.50", "172.16.0.25",
                   "203.0.113.45", "198.51.100.78">>[k])
    /\ Len(transactions_collection) > 0
    /\ transactions_collection[Len(transactions_collection)].fraud_reasons
          = call.fraud_reasons

====
